---- MODULE Spec2Model ----
(***************************************************************************)
(* A model of verify_bandersnatch.py: the reconciliation of a declared     *)
(* inventory of package files (files.txt) against a bandersnatch mirror,   *)
(* followed by the verification scan of the mirror's files.                *)
(*                                                                         *)
(* Strings the program operates on (project names, lines, URLs) are        *)
(* sequences of characters or tokens; strings it only compares (versions,  *)
(* digests' hex form) are opaque values.                                   *)
(***************************************************************************)
EXTENDS Integers, Sequences, FiniteSets, TLC

VARIABLES
    pc,                      \* position of main()
    regex, check_hashes,     \* args.regex, args.check_hashes
    files_txt,               \* the lines of args.files_txt, once read
    web_index,               \* the documents under args.web_dir/simple, once read
    csv_packages, bandersnatch_packages,
    packages_missing_from_bandersnatch, packages_only_in_bandersnatch,
    packages_with_files_only_in_bandersnatch, packages_in_both,
    missing_files, unexpected_files, files_to_check,
    outputs,                 \* the files main() wrote: name -> sequence of lines
    store,                   \* the backing store: path -> state of that path
    now,                     \* the wall clock, in seconds
    logger, fail_count,
    pending,                 \* records the scan's for loop has not reached yet
    tested,                  \* history: record id -> outcomes of its test() calls
    emitted,                 \* history: the times of the progress lines printed
    arg, ret                 \* a single call under examination and its result

vars == << pc, regex, check_hashes, files_txt, web_index, csv_packages,
           bandersnatch_packages, packages_missing_from_bandersnatch,
           packages_only_in_bandersnatch, packages_with_files_only_in_bandersnatch,
           packages_in_both, missing_files, unexpected_files, files_to_check,
           outputs, store, now, logger, fail_count, pending, tested, emitted,
           arg, ret >>

None == "None"

(***************************************************************************)
(* Bounds of the model.                                                    *)
(***************************************************************************)
MaxNameLen == 2
MaxRows == 2
MaxProjects == 2
MaxTime == 4
MaxContentLen == 1

(***************************************************************************)
(* Strings.                                                                *)
(***************************************************************************)
Chars == {"A", "a", "b", "_", ".", "-"}

RECURSIVE SeqsUpTo(_, _)
SeqsUpTo(S, n) ==
    IF n = 0 THEN {<<>>}
    ELSE LET shorter == SeqsUpTo(S, n - 1)
         IN  shorter \cup {Append(s, x) : s \in {t \in shorter : Len(t) = n - 1}, x \in S}

Min(a, b) == IF a <= b THEN a ELSE b

\* str.replace(old, new) for single-character old and new
Replace(s, old, new) == [i \in 1..Len(s) |-> IF s[i] = old THEN new ELSE s[i]]

\* str.lower()
LowerChar(c) == IF c = "A" THEN "a" ELSE c
Lower(s) == [i \in 1..Len(s) |-> LowerChar(s[i])]

\* hash(str): a function of the characters of the string alone, with collisions
CharCode(c) ==
    CASE c = "A" -> 1 [] c = "a" -> 2 [] c = "b" -> 3 [] c = "c" -> 4
      [] c = "_" -> 5 [] c = "." -> 6 [] c = "-" -> 7 [] OTHER -> 0
RECURSIVE StrHash(_)
StrHash(s) ==
    IF s = <<>> THEN 0
    ELSE (StrHash(SubSeq(s, 1, Len(s) - 1)) * 3 + CharCode(s[Len(s)])) % 16

(***************************************************************************)
(* class PyPiPackageName                                                   *)
(***************************************************************************)
\* (variant: "." left as it is)
ComparableNameNoDot(name) == Lower(Replace(name, "_", "-"))
ComparableName(name) == Lower(Replace(Replace(name, "_", "-"), ".", "-"))

PyPiPackageName(name) == [name |-> name, comparable_name |-> ComparableName(name)]

\* (variant: the hash of the raw name)
PyPiPackageName_hash_raw(self) == StrHash(self.name)
PyPiPackageName_hash(self) == StrHash(self.comparable_name)

PyPiPackageName_eq(self, o) == self.comparable_name = o.comparable_name

(***************************************************************************)
(* dict and set keyed by PyPiPackageName: a key is found by its hash and   *)
(* then by __eq__.  A dict is a function whose domain holds the key        *)
(* objects; no two keys of a dict, or elements of a set, are equal.        *)
(***************************************************************************)
SameKey(k1, k2) ==
    PyPiPackageName_hash(k1) = PyPiPackageName_hash(k2) /\ PyPiPackageName_eq(k1, k2)

KeyIn(k, S) == \E k2 \in S : SameKey(k2, k)

\* the key object the container holds for k
StoredKey(S, k) == CHOOSE k2 \in S : SameKey(k2, k)

\* d[k]
DictGet(d, k) == d[StoredKey(DOMAIN d, k)]

\* d[k] = v: an equal key keeps the key object first inserted
DictSet(d, k, v) ==
    IF KeyIn(k, DOMAIN d)
    THEN [d EXCEPT ![StoredKey(DOMAIN d, k)] = v]
    ELSE [k2 \in DOMAIN d \cup {k} |-> IF k2 = k THEN v ELSE d[k2]]

\* d.setdefault(k, default), as the dict it leaves behind
DictSetDefault(d, k, default) ==
    IF KeyIn(k, DOMAIN d) THEN d ELSE DictSet(d, k, default)

\* S - T
SetDifference(S, T) == {k \in S : ~KeyIn(k, T)}

\* so & other: the elements are taken from the operand that is not larger
SetIntersection(so, other) ==
    IF Cardinality(other) > Cardinality(so)
    THEN {k \in so : KeyIn(k, other)}
    ELSE {k \in other : KeyIn(k, so)}

EmptyDict == <<>>

(***************************************************************************)
(* class FileRef, class FullFileRef, class Project                         *)
(***************************************************************************)
FileRef(id, name, sha256hash) == [id |-> id, name |-> name, sha256hash |-> sha256hash]

FullFileRef(id, name, sha256hash, path) ==
    [id |-> id, name |-> name, sha256hash |-> sha256hash, path |-> path]

Project(name) == [name |-> name, versions |-> EmptyDict, files |-> EmptyDict]

\* Project.add_file: the set fetched with versions.get(version, set()) is never
\* stored, so versions stays as it was; files[file.name] = file
Project_add_file(self, version, file) ==
    [self EXCEPT !.files =
        [n \in DOMAIN self.files \cup {file.name} |->
            IF n = file.name THEN file ELSE self.files[n]]]

Filenames(project) == DOMAIN project.files

FileRecords(project) == {project.files[n] : n \in DOMAIN project.files}

(***************************************************************************)
(* class ProjectNameRegexFilter: re.search of a literal pattern            *)
(***************************************************************************)
Contains(s, pat) ==
    \E i \in 1..(Len(s) - Len(pat) + 1) : SubSeq(s, i, i + Len(pat) - 1) = pat

ProjectNameRegexFilter_do_filter(pattern, project, version, filename) ==
    Contains(project, pattern)

\* args.regex: None, or a pattern
NoRegex == [is_none |-> TRUE, pattern |-> <<>>]
Regex(pattern) == [is_none |-> FALSE, pattern |-> pattern]

\* filter is not None and not filter(project, version, filename)
\* (variant: the predicate is not consulted)
RejectedNever(filter, project, version, filename) == FALSE
Rejected(filter, project, version, filename) ==
    /\ ~filter.is_none
    /\ ~ProjectNameRegexFilter_do_filter(filter.pattern, project, version, filename)

(***************************************************************************)
(* parse_files_txt                                                         *)
(* A line is a sequence of tokens: the characters of the fields, ",",      *)
(* "\n", and "#" for a run of 64 characters of [a-f0-9].                    *)
(***************************************************************************)
Whitespace == {" ", "\n"}

RECURSIVE rstrip(_)
rstrip(line) ==
    IF line # <<>> /\ line[Len(line)] \in Whitespace
    THEN rstrip(SubSeq(line, 1, Len(line) - 1))
    ELSE line

\* the splits (i, j) of s at which ^(.+?),(.+?),(.+?),([a-f0-9]{64})$ matches:
\* commas at i, j and Len(s) - 1, every group non-empty
RowSplits(s) ==
    {ij \in (1..Len(s)) \X (1..Len(s)) :
        /\ Len(s) >= 7
        /\ s[Len(s)] = "#" /\ s[Len(s) - 1] = ","
        /\ ij[1] >= 2 /\ s[ij[1]] = ","
        /\ ij[2] >= ij[1] + 2 /\ s[ij[2]] = ","
        /\ ij[2] + 1 <= Len(s) - 2}

\* re.search(row_re, line): None, or the groups of the first match the
\* non-greedy groups find (the shortest first group, then the shortest second)
RowMatch(s) ==
    IF RowSplits(s) = {} THEN [matched |-> FALSE]
    ELSE LET i == CHOOSE a \in {ij[1] : ij \in RowSplits(s)} :
                      \A ij \in RowSplits(s) : a <= ij[1]
             j == CHOOSE b \in {ij[2] : ij \in {x \in RowSplits(s) : x[1] = i}} :
                      \A ij \in {x \in RowSplits(s) : x[1] = i} : b <= ij[2]
         IN  [matched  |-> TRUE,
              project  |-> SubSeq(s, 1, i - 1),
              version  |-> SubSeq(s, i + 1, j - 1),
              filename |-> SubSeq(s, j + 1, Len(s) - 2),
              filehash |-> SubSeq(s, Len(s), Len(s))]

\* one iteration of the for loop over the lines, on a line that matched
AddRow(results, n, row) ==
    LET key     == PyPiPackageName(row.project)
        after   == DictSetDefault(results, key, Project(row.project))
        fileref == FileRef(<<"csv", n>>, row.filename, row.filehash)
    IN  DictSet(after, key, Project_add_file(DictGet(after, key), row.version, fileref))

\* how a parse ends: the dict returned, or the exception raised
Returned(results) == [ok |-> TRUE, results |-> results]
Raised(what) == [ok |-> FALSE, error |-> what]

\* the for loop from line n on
RECURSIVE ParseRows(_, _, _, _)
ParseRows(lines, n, filter, results) ==
    IF n > Len(lines) THEN Returned(results)
    ELSE LET line == rstrip(lines[n])
             row  == RowMatch(line)
         IN  IF ~row.matched THEN Raised(line)
             ELSE IF Rejected(filter, row.project, row.version, row.filename)
                  THEN ParseRows(lines, n + 1, filter, results)
                  ELSE ParseRows(lines, n + 1, filter, AddRow(results, n, row))

parse_files_txt(lines, filter) == ParseRows(lines, 1, filter, EmptyDict)

(***************************************************************************)
(* parse_web_dir                                                           *)
(* The mirror's documents: index.projects is the list of project names of  *)
(* simple/index.v1_json, index.files[name] the list of file entries of     *)
(* simple/<name>/index.v1_json.  A URL is a sequence of path tokens.       *)
(***************************************************************************)
UrlPrefix == <<"..", "/", "..", "/", "packages", "/">>

startswith(s, prefix) ==
    Len(s) >= Len(prefix) /\ SubSeq(s, 1, Len(prefix)) = prefix

\* urllib.parse.unquote, token by token
UnquoteToken(t) == CASE t = "%78" -> "x" [] t = "%79" -> "y" [] OTHER -> t
unquote(s) == [i \in 1..Len(s) |-> UnquoteToken(s[i])]

\* os.path.join(web_dir_path, relpath) for a relative relpath
path_join(dir, relpath) == <<dir, "/">> \o relpath

\* urllib.parse.unquote(file_url)[len("../../"):] joined to the mirror root
ResolvePath(web_dir_path, file_url) ==
    path_join(web_dir_path, SubSeq(unquote(file_url), 5, Len(file_url)))

\* assert file_url.startswith("../../packages/")
\* (variant: the prefix is not examined)
UrlAssertAlways(file_url) == TRUE
UrlAssert(file_url) == startswith(file_url, UrlPrefix)

\* the for loop over project_files_dict["files"] from entry j on
RECURSIVE ParseFiles(_, _, _, _, _)
ParseFiles(web_dir_path, file_dicts, p, j, project) ==
    IF j > Len(file_dicts) THEN Returned(project)
    ELSE LET file_dict == file_dicts[j]
         IN  IF ~UrlAssert(file_dict.url) THEN Raised(file_dict.url)
             ELSE ParseFiles(web_dir_path, file_dicts, p, j + 1,
                     Project_add_file(project, None,
                         FullFileRef(<<"web", p, j>>, file_dict.filename,
                                     file_dict.sha256,
                                     ResolvePath(web_dir_path, file_dict.url))))

\* results[PyPiPackageName(project.name)] = project
StoreProject(results, project) ==
    DictSet(results, PyPiPackageName(project.name), project)

\* the for loop over index_dict["projects"] from project p on
RECURSIVE ParseProjects(_, _, _, _)
ParseProjects(web_dir_path, index, p, results) ==
    IF p > Len(index.projects) THEN Returned(results)
    ELSE LET name    == index.projects[p]
             project == ParseFiles(web_dir_path, index.files[name], p, 1, Project(name))
         IN  IF ~project.ok THEN project
             ELSE ParseProjects(web_dir_path, index, p + 1,
                                StoreProject(results, project.results))

parse_web_dir(web_dir_path, index) == ParseProjects(web_dir_path, index, 1, EmptyDict)

(***************************************************************************)
(* FullFileRef.test and the backing store                                  *)
(* hashlib.sha256 is a one-to-one function of the bytes fed to it: the     *)
(* digest is the bijective base-3 numeral the bytes spell.                 *)
(***************************************************************************)
Bytes == {0, 1}

RECURSIVE sha256_update(_, _)
sha256_update(digest, data) ==
    IF data = <<>> THEN digest
    ELSE sha256_update(digest * 3 + data[1] + 1, Tail(data))

sha256_new == 0

hexdigest(digest) == digest

Sha256Of(content) == hexdigest(sha256_update(sha256_new, content))

Absent == [kind |-> "absent", data |-> <<>>]
Directory == [kind |-> "dir", data |-> <<>>]
RegularFile(data) == [kind |-> "file", data |-> data]

\* os.path.exists
path_exists(st, path) == st[path].kind # "absent"

ChunkSize == 4096

\* the while loop of fh.read(4096) from offset pos on: the digest, and the
\* number of read calls made
RECURSIVE ReadLoop(_, _, _, _)
ReadLoop(content, pos, digest, reads) ==
    LET data == SubSeq(content, pos + 1, Min(pos + ChunkSize, Len(content)))
    IN  IF data = <<>> THEN [digest |-> digest, reads |-> reads + 1]
        ELSE ReadLoop(content, pos + Len(data), sha256_update(digest, data), reads + 1)

TestResult(result, opened, reads) == [result |-> result, opened |-> opened, reads |-> reads]

\* FullFileRef.test: "pass" for True, "fail" for False, "error" for the
\* exception open() raises on a directory
\* (variant: existence only, whatever check_hash)
FullFileRef_test_no_hash(self, st, check_hash) ==
    IF ~path_exists(st, self.path) THEN TestResult("fail", FALSE, 0)
    ELSE TestResult("pass", FALSE, 0)
FullFileRef_test(self, st, check_hash) ==
    IF ~path_exists(st, self.path) THEN TestResult("fail", FALSE, 0)
    ELSE IF check_hash
         THEN IF st[self.path].kind = "dir" THEN TestResult("error", FALSE, 0)
              ELSE LET r == ReadLoop(st[self.path].data, 0, sha256_new, 0)
                   IN  IF hexdigest(r.digest) # self.sha256hash
                       THEN TestResult("fail", TRUE, r.reads)
                       ELSE TestResult("pass", TRUE, r.reads)
         ELSE TestResult("pass", FALSE, 0)

(***************************************************************************)
(* Inputs of the model.                                                    *)
(***************************************************************************)
Names == SeqsUpTo(Chars, MaxNameLen)

WebDir == "web"

Url(token) == UrlPrefix \o <<token>>

Paths == {ResolvePath(WebDir, Url("x")), ResolvePath(WebDir, Url("y"))}

Contents == SeqsUpTo(Bytes, MaxContentLen)

FileStates == {Absent, Directory} \cup {RegularFile(c) : c \in Contents}

Stores == [Paths -> FileStates]

Idle == [call |-> "none"]

(***************************************************************************)
(* The state before main() has done anything.                              *)
(***************************************************************************)
Fresh ==
    /\ files_txt = <<>>
    /\ web_index = [projects |-> <<>>, files |-> <<>>]
    /\ csv_packages = EmptyDict
    /\ bandersnatch_packages = EmptyDict
    /\ packages_missing_from_bandersnatch = {}
    /\ packages_only_in_bandersnatch = {}
    /\ packages_with_files_only_in_bandersnatch = {}
    /\ packages_in_both = {}
    /\ missing_files = {}
    /\ unexpected_files = {}
    /\ files_to_check = {}
    /\ outputs = <<>>
    /\ now = 0
    /\ logger = [max_items |-> 0, cur_items |-> 0, has_next |-> FALSE, next_update |-> 0]
    /\ fail_count = 0
    /\ pending = {}
    /\ tested = <<>>
    /\ emitted = <<>>

mainVars == << regex, check_hashes, files_txt, web_index, csv_packages,
               bandersnatch_packages, packages_missing_from_bandersnatch,
               packages_only_in_bandersnatch, packages_with_files_only_in_bandersnatch,
               packages_in_both, missing_files, unexpected_files, files_to_check,
               outputs, store, now, logger, fail_count, pending, tested, emitted >>

(***************************************************************************)
(* PyPiPackageName(n1) == PyPiPackageName(n2), for any two names           *)
(***************************************************************************)
InitName ==
    /\ Fresh
    /\ pc = "call"
    /\ regex = NoRegex /\ check_hashes = FALSE
    /\ store = [p \in Paths |-> Absent]
    /\ arg \in [n1 : Names, n2 : Names]
    /\ ret = Idle

CompareNames ==
    /\ pc = "call"
    /\ LET a == PyPiPackageName(arg.n1)
           b == PyPiPackageName(arg.n2)
       IN  ret' = [call  |-> "eq",
                   eq    |-> PyPiPackageName_eq(a, b),
                   hash1 |-> PyPiPackageName_hash(a),
                   hash2 |-> PyPiPackageName_hash(b)]
    /\ pc' = "returned"
    /\ UNCHANGED << mainVars, arg >>

NextName == CompareNames

SpecName == InitName /\ [][NextName]_vars

(***************************************************************************)
(* FullFileRef.test, for any record and any state of the backing store     *)
(***************************************************************************)
InitTest ==
    /\ Fresh
    /\ pc = "call"
    /\ regex = NoRegex
    /\ check_hashes \in BOOLEAN
    /\ store \in Stores
    /\ arg \in {FullFileRef(<<"web", 1, 1>>, <<"f">>, Sha256Of(c), path) :
                    c \in Contents, path \in Paths}
    /\ ret = Idle

CallTest ==
    /\ pc = "call"
    /\ ret' = [call |-> "test"] @@ FullFileRef_test(arg, store, check_hashes)
    /\ pc' = "returned"
    /\ UNCHANGED << mainVars, arg >>

NextTest == CallTest

SpecTest == InitTest /\ [][NextTest]_vars

(***************************************************************************)
(* class ProgressLogger                                                    *)
(***************************************************************************)
UpdateInterval == 2

ProgressLogger(max_items) ==
    [max_items |-> max_items, cur_items |-> 0, has_next |-> FALSE, next_update |-> 0]

\* report_item when the two time.time() calls return t1 and then t2: the
\* logger it leaves, and whether it printed a line
\* (variant: only printed items are counted)
report_item_count_printed(self, t1, t2) ==
    IF self.has_next /\ t1 < self.next_update
    THEN [logger |-> self, printed |-> FALSE]
    ELSE [logger  |-> [self EXCEPT !.cur_items = @ + 1, !.has_next = TRUE,
                                   !.next_update = t2 + UpdateInterval],
          printed |-> TRUE]
report_item(self, t1, t2) ==
    LET counted == [self EXCEPT !.cur_items = @ + 1]
    IN  IF self.has_next /\ t1 < self.next_update
        THEN [logger |-> counted, printed |-> FALSE]
        ELSE [logger  |-> [counted EXCEPT !.has_next = TRUE,
                                          !.next_update = t2 + UpdateInterval],
              printed |-> TRUE]

(***************************************************************************)
(* main                                                                    *)
(* A file main() writes is the bag of its lines: line -> number of times   *)
(* written.  The order of the lines, which is the iteration order of a     *)
(* set, is not kept.                                                       *)
(***************************************************************************)
EmptyFile == <<>>

WriteLine(content, line) ==
    [l \in DOMAIN content \cup {line} |->
        IF l \in DOMAIN content
        THEN (IF l = line THEN content[l] + 1 ELSE content[l])
        ELSE 1]

LinesOf(S) == [l \in S |-> 1]

\* open(name, "w") and the lines printed to it
Written(outs, name, content) ==
    [n \in DOMAIN outs \cup {name} |-> IF n = name THEN content ELSE outs[n]]

LineCount(content) ==
    LET RECURSIVE Sum(_)
        Sum(D) == IF D = {} THEN 0
                  ELSE LET l == CHOOSE x \in D : TRUE
                       IN  content[l] + Sum(D \ {l})
    IN  Sum(DOMAIN content)

\* str(file_to_check)
FullFileRef_str(self) == [name |-> self.name, sha256hash |-> self.sha256hash, path |-> self.path]

\* lines 182-190
MissingFromBandersnatch(csv, bandersnatch) ==
    SetDifference(DOMAIN csv, DOMAIN bandersnatch)

OnlyInBandersnatch(csv, bandersnatch) ==
    SetDifference(DOMAIN bandersnatch, DOMAIN csv)

WithFilesOnlyInBandersnatch(csv, bandersnatch) ==
    {k \in OnlyInBandersnatch(csv, bandersnatch) :
        Cardinality(DOMAIN DictGet(bandersnatch, k).files) > 0}

InBoth(csv, bandersnatch) == SetIntersection(DOMAIN bandersnatch, DOMAIN csv)

\* lines 209-218, the for loop over packages_in_both
\* (variant: the difference of the unions, not the union of the differences)
MissingFilesPerIntersection(csv, bandersnatch, both) ==
    UNION {Filenames(DictGet(csv, k)) : k \in both}
        \ UNION {Filenames(DictGet(bandersnatch, k)) : k \in both}
MissingFiles(csv, bandersnatch, both) ==
    UNION {Filenames(DictGet(csv, k)) \ Filenames(DictGet(bandersnatch, k)) : k \in both}

UnexpectedFiles(csv, bandersnatch, both) ==
    UNION {Filenames(DictGet(bandersnatch, k)) \ Filenames(DictGet(csv, k)) : k \in both}

\* (variant: only the records whose filename is declared)
FilesToCheckDeclaredOnly(csv, bandersnatch, both) ==
    UNION {{f \in FileRecords(DictGet(bandersnatch, k)) :
                f.name \in Filenames(DictGet(csv, k))} : k \in both}
FilesToCheck(csv, bandersnatch, both) ==
    UNION {FileRecords(DictGet(bandersnatch, k)) : k \in both}

\* line 172
ParseCsv(Inputs) ==
    /\ pc = "parse_csv"
    /\ \E lines \in Inputs :
          LET r == parse_files_txt(lines, regex)
          IN  /\ files_txt' = lines
              /\ IF r.ok
                 THEN csv_packages' = r.results /\ pc' = "parse_web"
                 ELSE csv_packages' = csv_packages /\ pc' = "aborted_parse"
    /\ UNCHANGED << regex, check_hashes, web_index, bandersnatch_packages,
                    packages_missing_from_bandersnatch, packages_only_in_bandersnatch,
                    packages_with_files_only_in_bandersnatch, packages_in_both,
                    missing_files, unexpected_files, files_to_check, outputs, store,
                    now, logger, fail_count, pending, tested, emitted, arg, ret >>

\* line 176
ParseWeb(Inputs) ==
    /\ pc = "parse_web"
    /\ \E index \in Inputs :
          LET r == parse_web_dir(WebDir, index)
          IN  /\ web_index' = index
              /\ IF r.ok
                 THEN bandersnatch_packages' = r.results /\ pc' = "reconcile"
                 ELSE bandersnatch_packages' = bandersnatch_packages
                      /\ pc' = "aborted_assert"
    /\ UNCHANGED << regex, check_hashes, files_txt, csv_packages,
                    packages_missing_from_bandersnatch, packages_only_in_bandersnatch,
                    packages_with_files_only_in_bandersnatch, packages_in_both,
                    missing_files, unexpected_files, files_to_check, outputs, store,
                    now, logger, fail_count, pending, tested, emitted, arg, ret >>

\* lines 179-218
Reconcile ==
    /\ pc = "reconcile"
    /\ LET both == InBoth(csv_packages, bandersnatch_packages)
           missing == MissingFromBandersnatch(csv_packages, bandersnatch_packages)
           with_files == WithFilesOnlyInBandersnatch(csv_packages, bandersnatch_packages)
       IN  /\ packages_missing_from_bandersnatch' = missing
           /\ packages_only_in_bandersnatch' =
                  OnlyInBandersnatch(csv_packages, bandersnatch_packages)
           /\ packages_with_files_only_in_bandersnatch' = with_files
           /\ packages_in_both' = both
           /\ outputs' =
                  Written(Written(outputs, "bandersnatch_missing_packages.txt",
                                  LinesOf({k.name : k \in missing})),
                          "bandersnatch_unexpected_packages.txt",
                          LinesOf({k.name : k \in with_files}))
           /\ missing_files' = MissingFiles(csv_packages, bandersnatch_packages, both)
           /\ unexpected_files' = UnexpectedFiles(csv_packages, bandersnatch_packages, both)
           /\ files_to_check' = FilesToCheck(csv_packages, bandersnatch_packages, both)
    /\ pc' = "scan_begin"
    /\ UNCHANGED << regex, check_hashes, files_txt, web_index, csv_packages,
                    bandersnatch_packages, store, now, logger, fail_count, pending,
                    tested, emitted, arg, ret >>

\* lines 221-224
BeginScan ==
    /\ pc = "scan_begin"
    /\ logger' = ProgressLogger(Cardinality(files_to_check))
    /\ fail_count' = 0
    /\ outputs' = Written(outputs, "bad_files.txt", EmptyFile)
    /\ pending' = files_to_check
    /\ pc' = "scan"
    /\ UNCHANGED << regex, check_hashes, files_txt, web_index, csv_packages,
                    bandersnatch_packages, packages_missing_from_bandersnatch,
                    packages_only_in_bandersnatch,
                    packages_with_files_only_in_bandersnatch, packages_in_both,
                    missing_files, unexpected_files, files_to_check, store, now,
                    tested, emitted, arg, ret >>

Record(history, file, result) ==
    [f \in DOMAIN history \cup {file} |->
        IF f = file
        THEN [calls  |-> (IF f \in DOMAIN history THEN history[f].calls ELSE 0) + 1,
              result |-> result]
        ELSE history[f]]

\* lines 225-229, one iteration of the for loop over the set files_to_check;
\* the clock reads t1 and then t2 in report_item
\* (variant: the loop is left at the first failure)
ScanStepStoppingAtFailure(file_to_check, t1, t2) ==
    LET r == FullFileRef_test(file_to_check, store, check_hashes)
        reported == report_item(logger, t1, t2)
    IN  /\ tested' = Record(tested, file_to_check, r.result)
        /\ IF r.result = "error"
           THEN /\ pc' = "aborted_io"
                /\ UNCHANGED << outputs, fail_count, logger, emitted, now, pending >>
           ELSE /\ pc' = pc
                /\ IF r.result = "fail"
                   THEN /\ outputs' = [outputs EXCEPT !["bad_files.txt"] =
                                          WriteLine(@, FullFileRef_str(file_to_check))]
                        /\ fail_count' = fail_count + 1
                        /\ pending' = {}
                   ELSE /\ UNCHANGED << outputs, fail_count >>
                        /\ pending' = pending \ {file_to_check}
                /\ logger' = reported.logger
                /\ emitted' = IF reported.printed
                              THEN Append(emitted, [at_least |-> t1, at_most |-> t2])
                              ELSE emitted
                /\ now' = t2
ScanStep(file_to_check, t1, t2) ==
    LET r == FullFileRef_test(file_to_check, store, check_hashes)
        reported == report_item(logger, t1, t2)
    IN  /\ tested' = Record(tested, file_to_check, r.result)
        /\ IF r.result = "error"
           THEN /\ pc' = "aborted_io"
                /\ UNCHANGED << outputs, fail_count, logger, emitted, now, pending >>
           ELSE /\ pc' = pc
                /\ IF r.result = "fail"
                   THEN /\ outputs' = [outputs EXCEPT !["bad_files.txt"] =
                                          WriteLine(@, FullFileRef_str(file_to_check))]
                        /\ fail_count' = fail_count + 1
                   ELSE UNCHANGED << outputs, fail_count >>
                /\ logger' = reported.logger
                /\ emitted' = IF reported.printed
                              THEN Append(emitted, [at_least |-> t1, at_most |-> t2])
                              ELSE emitted
                /\ now' = t2
                /\ pending' = pending \ {file_to_check}

Scan ==
    /\ pc = "scan"
    /\ \E file_to_check \in pending :
          \E t1 \in now..MaxTime : \E t2 \in t1..MaxTime :
              ScanStep(file_to_check, t1, t2)
    /\ UNCHANGED << regex, check_hashes, files_txt, web_index, csv_packages,
                    bandersnatch_packages, packages_missing_from_bandersnatch,
                    packages_only_in_bandersnatch,
                    packages_with_files_only_in_bandersnatch, packages_in_both,
                    missing_files, unexpected_files, files_to_check, store, arg, ret >>

\* lines 230-245
Finish ==
    /\ pc = "scan"
    /\ pending = {}
    /\ outputs' =
          LET with_missing ==
                  IF Cardinality(missing_files) > 0
                  THEN Written(outputs, "bandersnatch_missing_files.txt",
                               LinesOf(missing_files))
                  ELSE outputs
          IN  IF Cardinality(unexpected_files) > 0
              THEN Written(with_missing, "bandersnatch_unexpected_files.txt",
                           LinesOf(unexpected_files))
              ELSE with_missing
    /\ pc' = "done"
    /\ UNCHANGED << regex, check_hashes, files_txt, web_index, csv_packages,
                    bandersnatch_packages, packages_missing_from_bandersnatch,
                    packages_only_in_bandersnatch,
                    packages_with_files_only_in_bandersnatch, packages_in_both,
                    missing_files, unexpected_files, files_to_check, store, now,
                    logger, fail_count, pending, tested, emitted, arg, ret >>

(***************************************************************************)
(* The inputs of a run.                                                    *)
(***************************************************************************)
NameAB == <<"A", "_", "b">>
NameAb == <<"a", "-", "b">>
NameB == <<"b">>

ProjectNames == {NameAB, NameAb, NameB}

Line(project, version, filename, filehash) ==
    project \o <<",">> \o version \o <<",">> \o filename \o <<",">> \o filehash \o <<"\n">>

Row(project, filename) == Line(project, <<"1">>, filename, <<"#">>)

GoodLines == {Row(p, f) : p \in ProjectNames, f \in {<<"f">>, <<"g">>}}

\* a hash that is not 64 characters of [a-f0-9]; a line of three fields
BadHashLine == Line(NameB, <<"1">>, <<"f">>, <<"?">>)
ShortLine == <<"b", ",", "f", ",", "#", "\n">>
BadLines == {BadHashLine, ShortLine}

FileEntry(filename, content, url) ==
    [filename |-> filename, sha256 |-> Sha256Of(content), url |-> url]

EntryF == FileEntry(<<"f">>, <<0>>, Url("x"))
EntryG == FileEntry(<<"g">>, <<0>>, Url("%79"))
EntryBadUrl == FileEntry(<<"g">>, <<0>>, <<"..", "/", "packages", "/", "y">>)

Range(q) == {q[i] : i \in 1..Len(q)}

\* the mirrors whose index lists the projects given, each with one of the
\* lists of file entries given
Mirrors(ProjectLists, FileLists) ==
    UNION {[projects : {projects}, files : [Range(projects) -> FileLists]] :
              projects \in ProjectLists}

\* the stores in which each path is absent, a directory, or a file whose bytes
\* do or do not hash to the sha256 the mirror declares
RunStores == [Paths -> {Absent, Directory, RegularFile(<<0>>), RegularFile(<<1>>)}]

Start ==
    /\ Fresh
    /\ pc = "parse_csv"
    /\ arg = Idle /\ ret = Idle

(***************************************************************************)
(* A whole run of main().                                                  *)
(***************************************************************************)
RunLines ==
    {Row(NameAB, <<"f">>), Row(NameAb, <<"g">>), Row(NameB, <<"f">>)} \cup BadLines

RunFilesTxts == SeqsUpTo(RunLines, MaxRows)

RunMirrors ==
    Mirrors(SeqsUpTo(ProjectNames, 1), {<<>>, <<EntryF>>, <<EntryF, EntryBadUrl>>})

Init ==
    /\ Start
    /\ regex \in {NoRegex, Regex(<<"-">>)}
    /\ check_hashes \in BOOLEAN
    /\ store \in {s \in RunStores : s[ResolvePath(WebDir, Url("y"))] = Absent}

Next ==
    \/ ParseCsv(RunFilesTxts)
    \/ ParseWeb(RunMirrors)
    \/ Reconcile
    \/ BeginScan
    \/ Scan
    \/ Finish

Spec == Init /\ [][Next]_vars

(***************************************************************************)
(* The run up to the end of the reconciliation (line 218), for any         *)
(* files.txt of up to MaxRows lines and any mirror of up to MaxProjects    *)
(* projects.  The backing store is not read before the scan.               *)
(***************************************************************************)
FilesTxts == SeqsUpTo(GoodLines \cup {BadHashLine}, MaxRows)

WebIndexes ==
    Mirrors(SeqsUpTo(ProjectNames, MaxProjects),
            {<<>>, <<EntryF>>, <<EntryF, EntryG>>, <<EntryF, EntryBadUrl>>})

InitRecon ==
    /\ Start
    /\ regex \in {NoRegex, Regex(<<"-">>)}
    /\ check_hashes = FALSE
    /\ store = [p \in Paths |-> Absent]

NextRecon ==
    \/ ParseCsv(FilesTxts)
    \/ ParseWeb(WebIndexes)
    \/ Reconcile

SpecRecon == InitRecon /\ [][NextRecon]_vars

(***************************************************************************)
(* The run through the verification scan, for a files.txt declaring both   *)
(* packages and any store.  The for loop of the scan is sequential code:   *)
(* while an iteration or the statements after the loop can run, they do.   *)
(***************************************************************************)
ScanFilesTxts == {<<Row(NameAB, <<"f">>), Row(NameB, <<"f">>)>>}

ScanMirrors ==
    Mirrors({<<NameAb>>, <<NameAb, NameB>>}, {<<>>, <<EntryF>>, <<EntryF, EntryG>>})

InitScan ==
    /\ Start
    /\ regex = NoRegex
    /\ check_hashes \in BOOLEAN
    /\ store \in RunStores

NextScan ==
    \/ ParseCsv(ScanFilesTxts)
    \/ ParseWeb(ScanMirrors)
    \/ Reconcile
    \/ BeginScan
    \/ Scan
    \/ Finish

SpecScan == InitScan /\ [][NextScan]_vars /\ WF_vars(Scan) /\ WF_vars(Finish)

\* C1: two names make equal package identities exactly when their lowercased
\* forms with "_" and "." replaced by "-" are the same string; equal identities
\* have equal hashes; names that differ only in case or among "_", ".", "-"
\* are equal.
CanonChar(c) == IF c \in {"_", ".", "-"} THEN "-" ELSE IF c = "A" THEN "a" ELSE c
Canon(n) == [i \in 1..Len(n) |-> CanonChar(n[i])]
DifferOnlyInCaseOrSeparator(n1, n2) ==
    /\ Len(n1) = Len(n2)
    /\ \A i \in 1..Len(n1) :
          \/ n1[i] = n2[i]
          \/ {n1[i], n2[i]} \subseteq {"_", ".", "-"}
          \/ {n1[i], n2[i]} = {"A", "a"}
C1_IdentityEquality ==
    pc = "returned" =>
        /\ ret.eq <=> (Canon(arg.n1) = Canon(arg.n2))
        /\ ret.eq => ret.hash1 = ret.hash2
        /\ DifferOnlyInCaseOrSeparator(arg.n1, arg.n2) => ret.eq
C1_Witness ==
    /\ pc = "returned"
    /\ arg.n1 = <<"A", "_">> /\ arg.n2 = <<"a", ".">>
    /\ ret.eq /\ ret.hash1 = ret.hash2

\* C5: test() passes exactly when the path exists and either hashes are not
\* checked or the sha256 of the file's bytes is the declared hash; a missing
\* path fails without the file being opened or read; without hash checking an
\* existing file passes whatever its bytes.
C5_TestOutcome ==
    pc = "returned" =>
        LET st       == store[arg.path]
            exists   == st.kind # "absent"
            matching == st.kind = "file" /\ Sha256Of(st.data) = arg.sha256hash
        IN  /\ ret.result = "pass" <=> (exists /\ (~check_hashes \/ matching))
            /\ ~exists => ret.result = "fail" /\ ~ret.opened /\ ret.reads = 0
            /\ (exists /\ ~check_hashes) => ret.result = "pass" /\ ~ret.opened
C5_Witness ==
    /\ pc = "returned"
    /\ check_hashes
    /\ store[arg.path].kind = "file"
    /\ Sha256Of(store[arg.path].data) # arg.sha256hash
    /\ ret.result = "fail" /\ ret.opened


(***************************************************************************)
(* What the properties below speak of.  A package identity is the          *)
(* canonical spelling of a name; it is computed here character by          *)
(* character, not by the program's own normalisation.                      *)
(***************************************************************************)
Identity(name) == Canon(name)

Identities(keys) == {Identity(k.name) : k \in keys}

\* the inventory a catalog holds for an identity
Inventory(catalog, id) ==
    catalog[CHOOSE k \in DOMAIN catalog : Identity(k.name) = id]

\* the rows of files.txt, and those the inclusion predicate accepts
ParsedRows == {RowMatch(rstrip(files_txt[n])) : n \in 1..Len(files_txt)}

Accepted(row) ==
    row.matched /\ (regex.is_none \/ Contains(row.project, regex.pattern))

AcceptedRows == {row \in ParsedRows : Accepted(row)}

RejectedRows == {row \in ParsedRows : row.matched /\ ~Accepted(row)}

\* the file entries the mirror lists, each with the name of its project
MirrorEntries ==
    UNION {{[project |-> name, entry |-> web_index.files[name][j]] :
                j \in 1..Len(web_index.files[name])} :
              name \in Range(web_index.projects)}

CsvRead == pc \notin {"parse_csv", "aborted_parse"}

Reconciled == pc \in {"scan_begin", "scan", "done", "aborted_io"}

Scanning == pc \in {"scan", "done", "aborted_io"}

FailedRecords == {f \in DOMAIN tested : tested[f].result = "fail"}

\* C2: the missing, unexpected and common packages partition the package
\* identities of the two catalogs: each identity of either catalog is in
\* exactly one of the three sets, and no set holds an identity twice.
C2_Partition ==
    Reconciled =>
        LET A == Identities(DOMAIN csv_packages)
            M == Identities(DOMAIN bandersnatch_packages)
            missing == Identities(packages_missing_from_bandersnatch)
            only == Identities(packages_only_in_bandersnatch)
            both == Identities(packages_in_both)
        IN  /\ missing = A \ M /\ only = M \ A /\ both = M \cap A
            /\ missing \cup only \cup both = A \cup M
            /\ missing \cap only = {} /\ missing \cap both = {} /\ only \cap both = {}
            /\ Cardinality(packages_missing_from_bandersnatch) = Cardinality(missing)
            /\ Cardinality(packages_only_in_bandersnatch) = Cardinality(only)
            /\ Cardinality(packages_in_both) = Cardinality(both)
C2_Witness ==
    /\ Reconciled
    /\ packages_missing_from_bandersnatch # {}
    /\ \E k \in packages_in_both :
          /\ PyPiPackageName(NameAB) \in DOMAIN csv_packages
          /\ PyPiPackageName(NameAb) \in DOMAIN bandersnatch_packages
          /\ Identity(k.name) = Identity(NameAB)

\* C3 as stated: for a package in both catalogs, each filename declared but
\* not mirrored is in missing_files, each mirrored but not declared is in
\* unexpected_files, and a filename both declared and mirrored is in neither.
C3_Original ==
    Reconciled =>
        \A id \in Identities(packages_in_both) :
            LET A == Filenames(Inventory(csv_packages, id))
                M == Filenames(Inventory(bandersnatch_packages, id))
            IN  /\ A \ M \subseteq missing_files
                /\ M \ A \subseteq unexpected_files
                /\ \A n \in A \cap M : n \notin missing_files /\ n \notin unexpected_files

\* C3 as amended: for a package in both catalogs, each filename declared but
\* not mirrored is in missing_files and each mirrored but not declared is in
\* unexpected_files; a filename is in missing_files (unexpected_files) only
\* when some package in both catalogs declares it without mirroring it
\* (mirrors it without declaring it).
C3_FileDifferences ==
    Reconciled =>
        LET ids == Identities(packages_in_both)
            A(id) == Filenames(Inventory(csv_packages, id))
            M(id) == Filenames(Inventory(bandersnatch_packages, id))
        IN  /\ \A id \in ids : A(id) \ M(id) \subseteq missing_files
            /\ \A id \in ids : M(id) \ A(id) \subseteq unexpected_files
            /\ \A n \in missing_files : \E id \in ids : n \in A(id) \ M(id)
            /\ \A n \in unexpected_files : \E id \in ids : n \in M(id) \ A(id)
C3_Witness ==
    /\ Reconciled
    /\ Cardinality(packages_in_both) = 2
    /\ <<"g">> \in missing_files
    /\ <<"g">> \in Filenames(Inventory(bandersnatch_packages, Identity(NameAB)))
    /\ <<"g">> \in Filenames(Inventory(csv_packages, Identity(NameAB)))

\* C4: files_to_check holds exactly the mirror's records of the packages that
\* are in both catalogs, whether or not their filename is declared; it holds
\* no record of a package only the mirror has and no declared-only record.
C4_FilesToVerify ==
    Reconciled =>
        /\ \A k \in DOMAIN bandersnatch_packages :
              \A f \in FileRecords(bandersnatch_packages[k]) :
                  f \in files_to_check <=>
                      Identity(k.name) \in Identities(DOMAIN csv_packages)
        /\ \A f \in files_to_check :
              \E k \in DOMAIN bandersnatch_packages :
                  f \in FileRecords(bandersnatch_packages[k])
        /\ \A k \in DOMAIN csv_packages :
              FileRecords(csv_packages[k]) \cap files_to_check = {}
C4_Witness ==
    /\ Reconciled
    /\ packages_only_in_bandersnatch # {}
    /\ \E f \in files_to_check :
          /\ f.name = <<"g">>
          /\ \A k \in DOMAIN csv_packages : <<"g">> \notin Filenames(csv_packages[k])

\* C6: the scan ends, and when it ends without an error every record of
\* files_to_check was tested exactly once, and fail_count and the number of
\* lines of bad_files.txt, which exists even when empty, are the number of
\* records whose test failed.
C6_ScanCompletes ==
    /\ [](pc = "done" =>
            /\ DOMAIN tested = files_to_check
            /\ \A f \in files_to_check : tested[f].calls = 1
            /\ fail_count = Cardinality(FailedRecords)
            /\ "bad_files.txt" \in DOMAIN outputs
            /\ LineCount(outputs["bad_files.txt"]) = Cardinality(FailedRecords))
    /\ (pc = "scan") ~> (pc \in {"done", "aborted_io"})
C6_Witness ==
    /\ pc = "done"
    /\ fail_count = 2
    /\ Cardinality(files_to_check) = 4

\* C7: a row the inclusion predicate rejects contributes to no report: the
\* declared catalog, the missing packages and the missing files come from
\* accepted rows alone, and the unexpected packages, the unexpected files and
\* the bad files come from the mirror alone.
C7_RejectedRowsUnreported ==
    Reconciled =>
        /\ \A k \in DOMAIN csv_packages : \A n \in Filenames(csv_packages[k]) :
              \E row \in AcceptedRows :
                  Identity(row.project) = Identity(k.name) /\ row.filename = n
        /\ \A k \in packages_missing_from_bandersnatch :
              \E row \in AcceptedRows : row.project = k.name
        /\ DOMAIN outputs["bandersnatch_missing_packages.txt"]
              \subseteq {row.project : row \in AcceptedRows}
        /\ \A n \in missing_files :
              \E row \in AcceptedRows :
                  /\ row.filename = n
                  /\ Identity(row.project) \in Identities(DOMAIN bandersnatch_packages)
        /\ \A k \in packages_only_in_bandersnatch :
              /\ k.name \in Range(web_index.projects)
              /\ \A row \in AcceptedRows : Identity(row.project) # Identity(k.name)
        /\ DOMAIN outputs["bandersnatch_unexpected_packages.txt"]
              \subseteq Range(web_index.projects)
        /\ unexpected_files \subseteq {e.entry.filename : e \in MirrorEntries}
        /\ \A f \in DOMAIN tested : f.id[1] = "web"
        /\ pc = "done" =>
              /\ "bandersnatch_missing_files.txt" \in DOMAIN outputs =>
                    DOMAIN outputs["bandersnatch_missing_files.txt"] = missing_files
              /\ "bandersnatch_unexpected_files.txt" \in DOMAIN outputs =>
                    DOMAIN outputs["bandersnatch_unexpected_files.txt"] = unexpected_files
              /\ \A line \in DOMAIN outputs["bad_files.txt"] :
                    \E e \in MirrorEntries : e.entry.filename = line.name
C7_Witness ==
    /\ pc = "done"
    /\ \E row \in RejectedRows :
          /\ row.project = NameB
          /\ Identity(NameB) \notin Identities(DOMAIN bandersnatch_packages)
    /\ AcceptedRows # {}
    /\ packages_missing_from_bandersnatch = {}

\* C8: once files.txt is read with a malformed line in it, or the mirror with
\* a file URL that does not start with ../../packages/, the run has aborted,
\* and an aborted run has computed no discrepancy set, written no file and
\* tested no record, whatever was read before the offending line or entry.
C8_AbortsWithoutOutput ==
    LET bad_line == \E n \in 1..Len(files_txt) : files_txt[n] \in BadLines
        bad_url  == \E e \in MirrorEntries :
                        \/ Len(e.entry.url) < 6
                        \/ SubSeq(e.entry.url, 1, 6) #
                               <<"..", "/", "..", "/", "packages", "/">>
    IN  /\ (pc # "parse_csv" /\ bad_line) => pc = "aborted_parse"
        /\ (pc \notin {"parse_csv", "parse_web"} /\ bad_url) => pc = "aborted_assert"
        /\ pc \in {"aborted_parse", "aborted_assert"} =>
              /\ DOMAIN outputs = {}
              /\ DOMAIN tested = {}
              /\ packages_missing_from_bandersnatch = {}
              /\ packages_only_in_bandersnatch = {}
              /\ packages_with_files_only_in_bandersnatch = {}
              /\ packages_in_both = {}
              /\ missing_files = {} /\ unexpected_files = {} /\ files_to_check = {}
              /\ DOMAIN bandersnatch_packages = {}
              /\ pc = "aborted_parse" => DOMAIN csv_packages = {}
C8_Witness ==
    /\ pc = "aborted_assert"
    /\ Len(files_txt) = MaxRows
    /\ DOMAIN csv_packages # {}
    /\ \E e \in MirrorEntries : e.entry = EntryF

\* C9: every accepted row of files.txt, and every file entry of the mirror,
\* has its filename in the inventory the catalog holds for the row's or
\* entry's package identity, however the rows or entries spell the package.
C9_EveryEntryFolded ==
    /\ CsvRead =>
          \A row \in AcceptedRows :
              /\ Identity(row.project) \in Identities(DOMAIN csv_packages)
              /\ row.filename \in Filenames(Inventory(csv_packages, Identity(row.project)))
    /\ Reconciled =>
          \A e \in MirrorEntries :
              /\ Identity(e.project) \in Identities(DOMAIN bandersnatch_packages)
              /\ e.entry.filename \in
                    Filenames(Inventory(bandersnatch_packages, Identity(e.project)))

\* C10: report_item counts every call, printed or not, so that after the scan
\* cur_items is the number of candidates; two successive progress lines are
\* at least 2 seconds apart; and the outcome of each test and fail_count are
\* what the records and the store decide, whatever was printed.
C10_ProgressAdvisory ==
    Scanning =>
        /\ logger.cur_items =
              Cardinality({f \in DOMAIN tested : tested[f].result # "error"})
        /\ pc = "done" =>
              logger.cur_items = Cardinality(files_to_check)
              /\ logger.max_items = Cardinality(files_to_check)
        /\ \A i \in 1..(Len(emitted) - 1) :
              emitted[i + 1].at_least - emitted[i].at_most >= 2
        /\ \A f \in DOMAIN tested :
              tested[f].result = FullFileRef_test(f, store, check_hashes).result
        /\ fail_count =
              Cardinality({f \in DOMAIN tested :
                              FullFileRef_test(f, store, check_hashes).result = "fail"})
C10_Witness ==
    /\ pc = "done"
    /\ Len(emitted) = 2
    /\ logger.cur_items = 4
    /\ fail_count = 2

====
